---- MODULE Spec2Model ----
(***************************************************************************)
(* The S&P 500 screener of src/apps.py as a state machine: the cached      *)
(* ticker-universe fetch, run_screener's per-ticker loop, the session      *)
(* state holding the last scan, the sorted result table with its           *)
(* single-row selection, and the detail view's volume metric.              *)
(*                                                                         *)
(* Floating-point values are exact rationals [kind, n, d] in lowest terms  *)
(* (kind "num"), NaN (kind "nan") or Python's None (kind "none").          *)
(***************************************************************************)
EXTENDS Integers, Sequences, FiniteSets, TLC

\* ---------------------------------------------------------------- bounds
MaxTickers == 2
MaxFetches == 4

\* ------------------------------------------------------ program constants
MinBars == 50
ProgressEvery == 10
Million == 1000000
RsiDefault == 30
EmaTolDefault == 200

VARIABLES
    ticker_cache,     \* st.cache_data entry of get_sp500_tickers
    error_shown,      \* st.error was emitted in the current script run
    scan_results,     \* st.session_state['scan_results'] (present flag + frame)
    cfg,              \* the five filter widgets
    pc,               \* "idle" (page rendered) or "scan" (inside run_screener)
    tickers,          \* run_screener: tickers
    i,                \* run_screener: loop index (0-based, next to visit)
    candidates,       \* run_screener: candidates
    progress,         \* progress_bar / status_text: <<>> or <<num, den>>
    fetched,          \* what yf.download produced for each visited position
    fetch_log,        \* tickers passed to yf.download, in call order
    indicator_log,    \* tickers for which ta.rsi was called, in call order
    results,          \* the sorted frame handed to st.dataframe
    selection,        \* event.selection.rows of the result table
    selected_ticker,  \* selected_ticker of the current page
    chart_volume,     \* latest['Volume'] of the detail view: <<>> or <<v>>
    vol_str,          \* the formatted volume metric
    fetches           \* yf.download calls made by scans so far (bounded by MaxFetches)

vars == <<ticker_cache, error_shown, scan_results, cfg, pc, tickers, i,
          candidates, progress, fetched, fetch_log, indicator_log, results,
          selection, selected_ticker, chart_volume, vol_str, fetches>>

\* ------------------------------------------------------------ float values
RECURSIVE Gcd(_, _)
Gcd(a, b) == IF b = 0 THEN a ELSE Gcd(b, a % b)

AbsInt(x) == IF x < 0 THEN -x ELSE x

Num(n, d) ==
    LET g == Gcd(AbsInt(n), d)
    IN  [kind |-> "num", n |-> n \div g, d |-> d \div g]

NaN == [kind |-> "nan", n |-> 0, d |-> 1]
None == [kind |-> "none", n |-> 0, d |-> 1]

IsNum(x) == x.kind = "num"

\* Python's x > y and x <= y on floats: both are False when either is NaN.
Gt(x, y) == IsNum(x) /\ IsNum(y) /\ x.n * y.d > y.n * x.d
Le(x, y) == IsNum(x) /\ IsNum(y) /\ x.n * y.d <= y.n * x.d

Abs(x) == IF IsNum(x) THEN Num(AbsInt(x.n), x.d) ELSE x

\* n / d rounded to the nearest integer, halves to the even neighbour.
RoundDiv(n, d) ==
    LET q == n \div d
        r == n % d
    IN  IF 2 * r > d \/ (2 * r = d /\ q % 2 = 1) THEN q + 1 ELSE q

\* round(x, 2); NaN stays NaN.
Round2(x) == IF IsNum(x) THEN Num(RoundDiv(x.n * 100, x.d), 100) ELSE x

RECURSIVE SumSeq(_)
SumSeq(s) == IF s = <<>> THEN 0 ELSE Head(s) + SumSeq(Tail(s))

\* Series.mean() of a window of integer volumes.
Mean(s) == Num(SumSeq(s), Len(s))

\* (final_close - current_ema) / current_ema * 100
RawDistPct(final_close, current_ema) ==
    IF IsNum(final_close) /\ IsNum(current_ema)
    THEN Num((final_close.n * current_ema.d - current_ema.n * final_close.d) * 100,
             final_close.d * current_ema.n)
    ELSE NaN

\* ----------------------------------------------------------------- inputs
TickerNames == <<"A", "B", "C", "D", "E">>
Tickers == {TickerNames[k] : k \in 1..MaxTickers}
NoTicker == "<None>"

\* What the constituents CSV can hold, up to MaxTickers symbols: the first n
\* names in ascending or in descending order (symbols are distinct).
Ascending(n) == [k \in 1..n |-> TickerNames[k]]
Descending(n) == [k \in 1..n |-> TickerNames[n + 1 - k]]
Universes == {Ascending(n) : n \in 0..MaxTickers} \cup {Descending(n) : n \in 0..MaxTickers}

Configs ==
    [use_rsi : BOOLEAN, rsi_limit : {RsiDefault}, use_ema : BOOLEAN,
     ema_tol : {EmaTolDefault}, use_vol : BOOLEAN]

DefaultConfig ==
    [use_rsi |-> TRUE, rsi_limit |-> RsiDefault, use_ema |-> TRUE,
     ema_tol |-> EmaTolDefault, use_vol |-> TRUE]

Price(mills) == Num(mills, 1000)
Rsi(mills) == Num(mills, 1000)

VolRising == <<1, 1, 1, 1, 2, 3>>
VolFlat == <<3, 1, 2, 2, 2, 2>>
VolFalling == <<3, 3, 3, 2, 2, 2>>

Data(bars, fields, close, rsi, ema, volume) ==
    [kind |-> "data", bars |-> bars, fields |-> fields, close |-> close,
     rsi |-> rsi, ema |-> ema, volume |-> volume]

Raise == [kind |-> "raise", bars |-> 0, fields |-> FALSE, close |-> NaN,
          rsi |-> None, ema |-> None, volume |-> <<>>]

\* What yf.download and the indicator library can hand to one loop
\* iteration: the download raises, or a frame of `bars` rows arrives, with or
\* without the Close/Volume columns, whose RSI(14) and EMA(50) are a number,
\* NaN, or no series at all.
Outcomes ==
    { Raise,
      Data(49, TRUE, Price(1000), Rsi(25000), Price(1000), VolRising),
      Data(50, TRUE, Price(1020), Rsi(30000), Price(1000), VolRising),
      Data(60, TRUE, Price(490), Rsi(30004), Price(500), VolFlat),
      Data(60, TRUE, Price(1025), Rsi(25005), Price(1000), VolFalling),
      Data(60, TRUE, Price(1000), None, Price(1000), VolRising),
      Data(60, TRUE, Price(1000), Rsi(20000), None, VolRising),
      Data(60, TRUE, Price(1000), NaN, Price(1000), VolFlat),
      Data(60, TRUE, Price(1000), Rsi(20000), NaN, VolRising),
      Data(60, FALSE, Price(1000), Rsi(20000), Price(1000), VolRising) }

\* latest['Volume'] of the one-year chart frame; <<>> is an empty frame.
ChartOutcomes ==
    {<<>>, <<Million - 1>>, <<Million>>, <<Million + 250000>>}

\* ------------------------------------------------------ get_sp500_tickers
NoCache == [cached |-> FALSE, value |-> <<>>, failed |-> FALSE]

\* pd.read_csv either yields the symbol column or raises.
UniverseFetches ==
    {[ok |-> TRUE, symbols |-> u] : u \in Universes}
        \cup {[ok |-> FALSE, symbols |-> <<>>]}

\* A cache hit makes no request.
NoFetch == [ok |-> TRUE, symbols |-> <<>>]

\* The function body: the symbols, or st.error and the empty list.
get_sp500_tickers(fetch) ==
    IF fetch.ok
    THEN [value |-> fetch.symbols, failed |-> FALSE]
    ELSE [value |-> <<>>, failed |-> TRUE]

\* @st.cache_data: the first return value (and the st.error it emitted) is
\* stored and replayed on every later call.
CachedGetTickers(cache, fetch) ==
    IF cache.cached
    THEN [value |-> cache.value, failed |-> cache.failed]
    ELSE get_sp500_tickers(fetch)

\* ----------------------------------------------------------- run_screener
\* Variant: a frame of exactly MinBars rows is rejected too.
InsufficientHistoryInclusive(bars) == bars <= MinBars

\* if len(df) < 50: continue
InsufficientHistory(bars) == bars < MinBars

\* Variant: an RSI equal to the threshold fails the enabled filter.
RsiCheckExclusive(d, c) ==
    IF d.rsi.kind # "none"
    THEN [current_rsi |-> d.rsi,
          match_rsi |-> ~(c.use_rsi /\ ~Gt(Num(c.rsi_limit, 1), d.rsi))]
    ELSE [current_rsi |-> Num(0, 1), match_rsi |-> FALSE]

\* Variant: the RSI is read only when its filter is enabled.
RsiCheckLazy(d, c) ==
    IF ~c.use_rsi
    THEN [current_rsi |-> Num(0, 1), match_rsi |-> d.rsi.kind # "none"]
    ELSE IF d.rsi.kind # "none"
    THEN [current_rsi |-> d.rsi,
          match_rsi |-> ~Gt(d.rsi, Num(c.rsi_limit, 1))]
    ELSE [current_rsi |-> Num(0, 1), match_rsi |-> FALSE]

\* 1. RSI CHECK: current_rsi starts at 0.0 and match_rsi at True.
RsiCheck(d, c) ==
    IF d.rsi.kind # "none"
    THEN [current_rsi |-> d.rsi,
          match_rsi |-> ~(c.use_rsi /\ Gt(d.rsi, Num(c.rsi_limit, 1)))]
    ELSE [current_rsi |-> Num(0, 1), match_rsi |-> FALSE]

\* 2. EMA CHECK (ema_tol is the slider value in hundredths of a percent)
EmaCheck(d, c) ==
    IF d.ema.kind # "none"
    THEN LET raw_dist_pct == RawDistPct(d.close, d.ema)
             abs_dist_pct == Abs(raw_dist_pct)
         IN  [raw_dist_pct |-> raw_dist_pct, abs_dist_pct |-> abs_dist_pct,
              match_ema |-> ~(c.use_ema /\ Gt(abs_dist_pct, Num(c.ema_tol, 100)))]
    ELSE [raw_dist_pct |-> Num(0, 1), abs_dist_pct |-> Num(0, 1),
          match_ema |-> FALSE]

\* 3. VOLUME CHECK
VolCheck(d, c) ==
    IF c.use_vol
    THEN LET n == Len(d.volume)
             vol_recent == Mean(SubSeq(d.volume, n - 2, n))
             vol_prev == Mean(SubSeq(d.volume, n - 5, n - 3))
         IN  ~Le(vol_recent, vol_prev)
    ELSE TRUE

Candidate(t, final_close, current_rsi, raw_dist_pct, abs_dist_pct) ==
    [Ticker |-> t, Kurs |-> Round2(final_close), RSI |-> Round2(current_rsi),
     Abstand_EMA50 |-> raw_dist_pct, abs_dist |-> abs_dist_pct]

\* The body of the try block for one ticker: whether it raised, whether the
\* indicators were computed, and the rows it appended (none or one).
EvaluateTicker(t, d, c) ==
    IF d.kind = "raise"
    THEN [raised |-> TRUE, indicators |-> FALSE, rows |-> <<>>]
    ELSE IF InsufficientHistory(d.bars)
    THEN [raised |-> FALSE, indicators |-> FALSE, rows |-> <<>>]
    ELSE IF ~d.fields
    THEN [raised |-> TRUE, indicators |-> FALSE, rows |-> <<>>]
    ELSE LET r == RsiCheck(d, c)
             e == EmaCheck(d, c)
             match_vol == VolCheck(d, c)
         IN  [raised |-> FALSE, indicators |-> TRUE,
              rows |-> IF r.match_rsi /\ e.match_ema /\ match_vol
                       THEN <<Candidate(t, d.close, r.current_rsi,
                                        e.raw_dist_pct, e.abs_dist_pct)>>
                       ELSE <<>>]

\* Variant: an exception ends the loop.
LoopAdvanceBreak(raised, idx, total) == IF raised THEN total ELSE idx + 1

\* Where the loop goes after an iteration: `continue` in the except clause,
\* `continue` on a short frame, and the normal end of the body all move on to
\* the next ticker.
LoopAdvance(raised, idx, total) == idx + 1

\* progress_bar.progress((i + 1) / total_tickers) on every tenth ticker
ProgressAfter(shown, idx, total) ==
    IF idx % ProgressEvery = 0 THEN <<idx + 1, total>> ELSE shown

\* Variant: the new rows are appended to the stored frame.
StoreScanResultsMerge(session, df) == [present |-> TRUE, df |-> session.df \o df]

\* st.session_state['scan_results'] = run_screener(...)
StoreScanResults(session, df) == [present |-> TRUE, df |-> df]

\* ------------------------------------------------------------ result table
Perms(n) == {p \in [1..n -> 1..n] : \A a, b \in 1..n : a # b => p[a] # p[b]}

\* sort_values order on one key: ascending, NaN last.
KeyNotAfter(a, b) == ~IsNum(b) \/ Le(a, b)

\* Variant: the frame is shown in the order it was accumulated.
SortedViewsUnsorted(df) == {df}

\* results.sort_values(by="_abs_dist", ascending=True): the default sort kind
\* is not stable, so any arrangement that is ascending in the key can come out.
SortedViews(df) ==
    {v \in {[k \in 1..Len(df) |-> df[p[k]]] : p \in Perms(Len(df))} :
        \A a, b \in 1..Len(df) : a < b => KeyNotAfter(v[a].abs_dist, v[b].abs_dist)}

\* results.drop(columns=["_abs_dist"])
Display(df) ==
    [k \in 1..Len(df) |->
        [Ticker |-> df[k].Ticker, Kurs |-> df[k].Kurs, RSI |-> df[k].RSI,
         Abstand_EMA50 |-> df[k].Abstand_EMA50]]

\* The table widget keeps its selected rows only while it shows the same data.
WidgetRows(shown, next, requested) == IF next = shown THEN requested ELSE <<>>

\* selected_ticker = results.iloc[idx]['Ticker'] if event.selection.rows
SelectedTicker(df, rows) ==
    IF rows # <<>> THEN df[rows[1] + 1].Ticker ELSE NoTicker

\* -------------------------------------------------------------- detail view
NoMetric == [unit |-> "none", value |-> 0]

\* f"{v / 1e6:.1f}M" if v > 1e6 else f"{v:.0f}"; the M value is in tenths.
FormatVolume(v) ==
    IF v > Million
    THEN [unit |-> "M", value |-> RoundDiv(v * 10, Million)]
    ELSE [unit |-> "", value |-> v]

DetailView ==
    IF selected_ticker' # NoTicker
    THEN \E ch \in ChartOutcomes :
            /\ chart_volume' = ch
            /\ vol_str' = IF ch = <<>> THEN NoMetric ELSE FormatVolume(ch[1])
    ELSE /\ chart_volume' = <<>>
         /\ vol_str' = NoMetric

\* The left column below the button, then the right column.
RenderPage(requested) ==
    IF scan_results'.present /\ scan_results'.df # <<>>
    THEN /\ results' \in SortedViews(scan_results'.df)
         /\ selection' = WidgetRows(Display(results), Display(results'), requested)
         /\ selected_ticker' = SelectedTicker(results', selection')
         /\ DetailView
    ELSE /\ results' = <<>>
         /\ selection' = <<>>
         /\ selected_ticker' = NoTicker
         /\ DetailView

\* ------------------------------------------------------------------ actions
Init ==
    /\ ticker_cache = NoCache
    /\ error_shown = FALSE
    /\ scan_results = [present |-> FALSE, df |-> <<>>]
    /\ cfg = DefaultConfig
    /\ pc = "idle"
    /\ tickers = <<>>
    /\ i = 0
    /\ candidates = <<>>
    /\ progress = <<>>
    /\ fetched = <<>>
    /\ fetch_log = <<>>
    /\ indicator_log = <<>>
    /\ results = <<>>
    /\ selection = <<>>
    /\ selected_ticker = NoTicker
    /\ chart_volume = <<>>
    /\ vol_str = NoMetric
    /\ fetches = 0

ScanLocals == <<tickers, i, candidates, progress, fetched, fetch_log, indicator_log>>
PageVars == <<results, selection, selected_ticker, chart_volume, vol_str>>

\* The scan button: the script reruns, calls get_sp500_tickers() and enters
\* run_screener up to its loop. The names the rest of the script assigns are
\* not assigned yet in this run.
PressScan ==
    /\ pc = "idle"
    /\ \E fetch \in (IF ticker_cache.cached THEN {NoFetch} ELSE UniverseFetches) :
          LET got == CachedGetTickers(ticker_cache, fetch)
          IN  /\ fetches + Len(got.value) <= MaxFetches
              /\ ticker_cache' = [cached |-> TRUE, value |-> got.value,
                                  failed |-> got.failed]
              /\ error_shown' = got.failed
              /\ tickers' = got.value
    /\ candidates' = <<>>
    /\ progress' = <<0, 1>>
    /\ i' = 0
    /\ fetched' = <<>>
    /\ fetch_log' = <<>>
    /\ indicator_log' = <<>>
    /\ selected_ticker' = NoTicker
    /\ chart_volume' = <<>>
    /\ vol_str' = NoMetric
    /\ pc' = "scan"
    /\ UNCHANGED <<scan_results, cfg, results, selection, fetches>>

\* One iteration of `for i, t in enumerate(tickers)`, try/except included.
ScanStep ==
    /\ pc = "scan"
    /\ i < Len(tickers)
    /\ \E d \in Outcomes :
          LET t == tickers[i + 1]
              r == EvaluateTicker(t, d, cfg)
          IN  /\ progress' = ProgressAfter(progress, i, Len(tickers))
              /\ fetched' = Append(fetched, d)
              /\ fetch_log' = Append(fetch_log, t)
              /\ indicator_log' = IF r.indicators THEN Append(indicator_log, t)
                                  ELSE indicator_log
              /\ candidates' = candidates \o r.rows
              /\ i' = LoopAdvance(r.raised, i, Len(tickers))
    /\ fetches' = fetches + 1
    /\ UNCHANGED <<ticker_cache, error_shown, scan_results, cfg, pc, tickers,
                   PageVars>>

\* The loop is over: clear the progress widgets, return the frame, store it
\* in the session and render the rest of the page.
ScanReturn ==
    /\ pc = "scan"
    /\ i >= Len(tickers)
    /\ scan_results' = StoreScanResults(scan_results, candidates)
    /\ RenderPage(selection)
    /\ progress' = <<>>
    /\ tickers' = <<>>
    /\ i' = 0
    /\ candidates' = <<>>
    /\ fetched' = <<>>
    /\ fetch_log' = <<>>
    /\ indicator_log' = <<>>
    /\ pc' = "idle"
    /\ UNCHANGED <<ticker_cache, error_shown, cfg, fetches>>

\* A click on a row of the table: the script reruns without the button.
SelectRow ==
    /\ pc = "idle"
    /\ \E idx \in 0..(Len(results) - 1) :
          /\ selection # <<idx>>
          /\ scan_results' = scan_results
          /\ RenderPage(<<idx>>)
    /\ error_shown' = FALSE
    /\ UNCHANGED <<ticker_cache, cfg, pc, ScanLocals, fetches>>

\* A click on the selected row clears the selection and reruns the script.
Deselect ==
    /\ pc = "idle"
    /\ selection # <<>>
    /\ scan_results' = scan_results
    /\ RenderPage(<<>>)
    /\ error_shown' = FALSE
    /\ UNCHANGED <<ticker_cache, cfg, pc, ScanLocals, fetches>>

\* One checkbox of the filter expander is toggled: rerun, no scan.
ChangeFilter ==
    /\ pc = "idle"
    /\ \E w \in {"use_rsi", "use_ema", "use_vol"} :
          cfg' = [cfg EXCEPT ![w] = ~cfg[w]]
    /\ scan_results' = scan_results
    /\ RenderPage(selection)
    /\ error_shown' = FALSE
    /\ UNCHANGED <<ticker_cache, pc, ScanLocals, fetches>>

Next ==
    \/ PressScan
    \/ ScanStep
    \/ ScanReturn
    \/ SelectRow
    \/ Deselect
    \/ ChangeFilter

Spec == Init /\ [][Next]_vars

\* run_screener is straight-line sequential code inside one script run: once
\* entered, every iteration is eventually executed (each yf.download call
\* returns or raises) and the function eventually returns.
FairSpec == Spec /\ WF_vars(ScanStep) /\ WF_vars(ScanReturn)

TypeOK ==
    /\ pc \in {"idle", "scan"}
    /\ i \in 0..MaxTickers
    /\ fetches \in 0..MaxFetches
    /\ cfg \in Configs

\* =================================================================== claims
LoopDone == pc = "scan" /\ i >= Len(tickers)

Visited == 1..Len(fetched)

CandTickers == {candidates[k].Ticker : k \in 1..Len(candidates)}

RowOf(t) == candidates[CHOOSE k \in 1..Len(candidates) : candidates[k].Ticker = t]

Raised(k) == EvaluateTicker(tickers[k], fetched[k], cfg).raised

\* The rows a scan of the first n tickers yields when the tickers that raised
\* are taken out of the universe.
RECURSIVE RowsWithoutRaising(_)
RowsWithoutRaising(n) ==
    IF n = 0 THEN <<>>
    ELSE RowsWithoutRaising(n - 1)
            \o (IF Raised(n) THEN <<>>
                ELSE EvaluateTicker(tickers[n], fetched[n], cfg).rows)

\* A frame that reaches the indicator calls with numbers for both.
Evaluable(d) ==
    d.kind = "data" /\ d.bars >= 50 /\ d.fields /\ IsNum(d.rsi) /\ IsNum(d.ema)

\* The three criteria as the specification words them, in integer arithmetic:
\* rsi <= threshold, |close - ema| / ema * 100 <= tolerance, and the mean
\* volume of the last three bars above the mean of the three before.
SpecRsiPass(d, c) == ~c.use_rsi \/ d.rsi.n <= c.rsi_limit * d.rsi.d

SpecEmaPass(d, c) ==
    ~c.use_ema
        \/ AbsInt(d.close.n * d.ema.d - d.ema.n * d.close.d) * 10000
               <= c.ema_tol * d.close.d * d.ema.n

SpecVolPass(d, c) ==
    ~c.use_vol
        \/ d.volume[4] + d.volume[5] + d.volume[6]
               > d.volume[1] + d.volume[2] + d.volume[3]

SpecPass(d, c) == SpecRsiPass(d, c) /\ SpecEmaPass(d, c) /\ SpecVolPass(d, c)

\* During a scan the tickers visited so far are exactly the first i of the
\* universe, each fetched once and in order, and the accumulated candidates
\* are those of the same scan over the universe without the raising tickers.
ScanPrefixInvariant ==
    pc = "scan" =>
        /\ i <= Len(tickers)
        /\ Len(fetched) = i
        /\ fetch_log = SubSeq(tickers, 1, i)
        /\ candidates = RowsWithoutRaising(i)

\* C1: an exception while fetching or evaluating one ticker excludes that
\* ticker alone: every other ticker is still fetched and evaluated once, in
\* universe order, the candidates are those of the same scan over the universe
\* with the raising tickers removed, and every scan that starts completes.
C1_FailureIsolated ==
    /\ []ScanPrefixInvariant
    /\ (pc = "scan") ~> (pc = "idle")

\* C1 witness: a finished loop whose first ticker raised and whose second
\* ticker became a candidate.
C1_Witness ==
    /\ LoopDone
    /\ Len(tickers) = 2
    /\ Raised(1)
    /\ tickers[2] \in CandTickers

\* C2: when the universe fetch fails, an error is shown, no ticker is
\* fetched or evaluated, and the stored scan result is neither created nor
\* replaced by that request.
C2_FailedFetchLeavesNoResult ==
    /\ [](pc = "scan" /\ error_shown => tickers = <<>> /\ fetch_log = <<>>)
    /\ [][(pc = "scan" /\ error_shown /\ pc' = "idle")
            => scan_results' = scan_results]_vars

\* C3: under every filter configuration a frame of fewer than 50 bars never
\* yields a candidate and is dropped before any indicator is computed, a
\* frame of exactly 50 bars that meets the active criteria does yield one,
\* and the loop goes on to the next ticker either way.
C3_ShortSeriesExcluded ==
    pc = "scan" =>
        /\ Len(fetch_log) = i
        /\ \A k \in Visited :
              LET d == fetched[k]
                  t == tickers[k]
              IN  /\ (d.kind = "data" /\ d.bars < 50)
                        => /\ t \notin CandTickers
                           /\ \A j \in 1..Len(indicator_log) : indicator_log[j] # t
                  /\ (Evaluable(d) /\ d.bars = 50 /\ SpecPass(d, cfg))
                        => t \in CandTickers

\* C3 witness: a 49-bar frame was skipped, then a 50-bar frame became a
\* candidate in the same scan.
C3_Witness ==
    /\ LoopDone
    /\ Len(tickers) = 2
    /\ fetched[1].kind = "data" /\ fetched[1].bars = 49
    /\ fetched[2].kind = "data" /\ fetched[2].bars = 50
    /\ CandTickers = {tickers[2]}

\* C4: a ticker with at least 50 bars and numeric RSI and EMA values is a
\* candidate if and only if every enabled criterion passes, with inclusive
\* RSI and EMA boundaries and a strict volume comparison; with all three
\* flags off every such ticker is a candidate.
C4_CandidateIffAllPass ==
    pc = "scan" =>
        \A k \in Visited :
            Evaluable(fetched[k])
                => (tickers[k] \in CandTickers <=> SpecPass(fetched[k], cfg))

\* C4 witness: with all three filters on, a ticker exactly on the RSI and EMA
\* boundaries is a candidate and a ticker 0.004 above the RSI threshold is not.
C4_Witness ==
    /\ LoopDone
    /\ Len(tickers) = 2
    /\ cfg = DefaultConfig
    /\ Evaluable(fetched[1]) /\ fetched[1].rsi = Rsi(30000)
    /\ fetched[1].close = Price(1020) /\ fetched[1].ema = Price(1000)
    /\ Evaluable(fetched[2]) /\ fetched[2].rsi = Rsi(30004)
    /\ CandTickers = {tickers[1]}

\* C5: a ticker whose latest RSI or EMA is unavailable (no series, or no
\* number for the last bar) is never a candidate, whatever the flags.
C5_UnavailableIndicatorExcluded ==
    pc = "scan" =>
        \A k \in Visited :
            LET d == fetched[k]
            IN  (d.kind = "data" /\ d.bars >= 50 /\ d.fields
                    /\ (~IsNum(d.rsi) \/ ~IsNum(d.ema)))
                    => tickers[k] \notin CandTickers

TickerRank(t) == CHOOSE k \in 1..Len(TickerNames) : TickerNames[k] = t

\* C6: the displayed table is ascending in abs_dist (NaN last) and rows with
\* equal abs_dist appear in lexicographic Ticker order.
C6_RankedWithTickerTieBreak ==
    pc = "idle" =>
        \A a, b \in 1..Len(results) :
            a < b =>
                \/ (IsNum(results[a].abs_dist) /\ ~IsNum(results[b].abs_dist))
                \/ (Le(results[a].abs_dist, results[b].abs_dist)
                        /\ results[a].abs_dist # results[b].abs_dist)
                \/ (results[a].abs_dist = results[b].abs_dist
                        /\ TickerRank(results[a].Ticker) < TickerRank(results[b].Ticker))

\* C7: the stored scan result changes only when a scan completes, and it then
\* becomes exactly the candidates of that scan, nothing of the previous
\* result remaining.
C7_ScanReplacesResult ==
    [][IF pc = "scan" /\ pc' = "idle"
       THEN scan_results' = [present |-> TRUE, df |-> RowsWithoutRaising(Len(tickers))]
       ELSE scan_results' = scan_results]_vars

\* C7 witness: a second scan is about to return candidates that differ from
\* the non-empty result stored by the first.
C7_Witness ==
    /\ LoopDone
    /\ scan_results.present
    /\ scan_results.df # <<>>
    /\ candidates # <<>>
    /\ candidates # scan_results.df

\* C8: the RSI and EMA-distance values in a ticker's candidate row are the
\* ones every other filter configuration that accepts the same frame would
\* record.
C8_ValuesIndependentOfConfig ==
    pc = "scan" =>
        \A k \in Visited : \A c2 \in Configs :
            LET other == EvaluateTicker(tickers[k], fetched[k], c2).rows
            IN  (tickers[k] \in CandTickers /\ other # <<>>)
                    => /\ RowOf(tickers[k]).RSI = other[1].RSI
                       /\ RowOf(tickers[k]).Abstand_EMA50 = other[1].Abstand_EMA50
                       /\ RowOf(tickers[k]).abs_dist = other[1].abs_dist

\* C8 witness: a frame accepted with all filters off that the default
\* configuration accepts too, with a non-zero RSI and distance.
C8_Witness ==
    /\ LoopDone
    /\ Len(tickers) >= 1
    /\ ~cfg.use_rsi /\ ~cfg.use_ema /\ ~cfg.use_vol
    /\ tickers[1] \in CandTickers
    /\ EvaluateTicker(tickers[1], fetched[1], DefaultConfig).rows # <<>>
    /\ RowOf(tickers[1]).RSI = Num(30, 1)
    /\ RowOf(tickers[1]).abs_dist = Num(2, 1)

\* C9: the detail view shows the latest volume in millions exactly when it
\* is at least 1,000,000, and as a plain count otherwise.
C9_MillionsFromOneMillion ==
    chart_volume # <<>> =>
        IF chart_volume[1] >= 1000000
        THEN vol_str.unit = "M"
        ELSE vol_str = [unit |-> "", value |-> chart_volume[1]]

====
